---- MODULE Spec2Model ----
(***************************************************************************)
(* A model of byteps/common/global.cc: the BytePSScheduledQueue work       *)
(* queue and the BytePSGlobal singleton (Init / Start / Shutdown /         *)
(* CheckInit, the tensor registry and the key-to-server encoding).         *)
(*                                                                         *)
(* Every method is cut at its lock acquisitions and at each access to      *)
(* shared state it makes outside a lock, so that every interleaving of     *)
(* the threads the code allows is an interleaving of the model.            *)
(***************************************************************************)
EXTENDS Integers, Sequences, FiniteSets, TLC

\* ------------------------------------------------------------------ bounds
\* Threads that call BytePSGlobal::Init(); caller 1 is the host thread, which
\* goes on to call Start() and Shutdown().
NumCallers == 2
\* Threads that call addTask.
NumProducers == 2
\* TensorTableEntry objects that are ever handed to addTask.
MaxTasks == 3
\* Pipeline stages (the enumerators of QueueType before QueueNum).  The header
\* that sets it is not part of the source; the model keeps it small.
QueueNum == 2

\* Start() and Shutdown() run over ThreadNum slots of _threads[QueueNum]: one
\* worker per stage.
ThreadNum == QueueNum

Callers == 1..NumCallers
Host == CHOOSE c \in Callers : (c - 1) \notin Callers
Producers == 1..NumProducers
QueueTypes == 0..(QueueNum - 1)
Entries == 1..MaxTasks

\* Thread identities, as a mutex records its owner.
NoThread == <<"none", 0>>
CallerT(c) == <<"caller", c>>
ProducerT(p) == <<"producer", p>>
WorkerT(i) == <<"worker", i>>

\* The null pointer of `_queues[QueueNum] = {NULL}`, `_threads`, `_ps`.
NULL == "NULL"
\* What front() of an empty std::deque may hand back: not one of the entries.
GarbageEntry == MaxTasks + 1

VARIABLES
    \* BytePSScheduledQueue, one instance per stage
    _sq,              \* [QueueTypes -> Seq(Entries)]   std::deque _sq
    _mutex,           \* [QueueTypes -> thread]         std::mutex _mutex
    _finished,        \* [QueueTypes -> Nat]            _finished
    sq_ub,            \* [QueueTypes -> BOOLEAN] front()/pop_front() ran on an empty deque
    \* BytePSGlobal
    _init_mutex,      \* owner of _init_mutex
    _initialized,
    _should_shutdown,
    _rank, _local_rank, _size, _local_size,
    _partition_bound,
    _comm,            \* NULL, or "comm" once make_shared ran
    _ps,              \* NULL, "started", "finalized"
    _reduce_stream, _broadcast_stream,  \* NULL, "created", "destroyed"
    _queues,          \* [QueueTypes -> NULL or "queue"]
    _queues_mutex,    \* [QueueTypes -> thread]
    _threads,         \* [0..ThreadNum-1 -> NULL, "running", "deleted"]
    _encode_mutex,    \* owner of _encode_mutex
    _name_to_cxt,     \* [registered names -> BPSContext]
    next_key_,
    ps_kv_,           \* [keys seen -> PSKV]
    aborted,          \* a BPS_CHECK failed (or the process faulted): the process is gone
    \* the environment and the collaborators
    env,              \* BYTEPS_PARTITION_BOUND
    \* threads
    caller,           \* [Callers -> frame of Init / Start / Shutdown]
    prod,             \* [Producers -> frame of addTask]
    wk,               \* [0..ThreadNum-1 -> frame of a stage worker's loop]
    reg,              \* [RegThreads -> frame of a registry call]
    enc,              \* [EncThreads -> frame of an EncodeDefaultKey call]
    krs,              \* what GetServerKeyRanges() returns
    check_status,     \* what the last CheckInit() call returned
    \* history, read by the properties only
    n_comm_init, n_ps_start, n_stream_create, n_queue_create,
    first_topology,   \* what the first _comm->init wrote
    n_tasks,          \* entries handed to addTask so far
    completed,        \* [QueueTypes -> Seq(Entries)] addTask calls in the order they returned
    returned,         \* [QueueTypes -> Seq] what the getTask calls returned, in order
    before,           \* [Entries -> SUBSET Entries] addTask calls that had returned when this one started
    on_empty,         \* [QueueTypes -> Nat] getTask/peekTask bodies run on an empty queue
    issued,           \* the keys next_key_++ handed out, in order
    chunks,           \* [Names -> Seq] the amounts the partition loop added to accumulated
    reg_size,         \* [Names -> size given to the call that registered the name, or NoSize]
    reg_bound,        \* [Names -> _partition_bound while the name was partitioned]
    iti_first,        \* [Names -> what the first IsTensorInitialized call returned]
    iti_later,        \* [Names -> what the later calls returned]
    resized_true,     \* names for which a call with another size returned true
    n_convert,        \* ConvertBoundToBytes calls
    first_dtype,      \* dtype given to the first IsTensorInitialized call
    n_alloc,          \* cudaHostAlloc calls
    freed,            \* the pointers Shutdown gave to cudaFreeHost, in order
    yielded           \* the EncodeDefaultKey calls that returned: key, len, server, wire key

queueVars == <<_sq, _mutex, _finished, sq_ub>>
globalVars == <<_init_mutex, _initialized, _should_shutdown, _rank, _local_rank,
                _size, _local_size, _partition_bound, _comm, _ps, _reduce_stream,
                _broadcast_stream, _queues, _queues_mutex, _threads>>
regVars == <<_encode_mutex, _name_to_cxt, next_key_, ps_kv_, aborted>>
threadVars == <<caller, prod, wk, check_status>>
histVars == <<n_comm_init, n_ps_start, n_stream_create, n_queue_create,
              first_topology, n_tasks, completed, returned, before, on_empty>>
regHist == <<issued, chunks, reg_size, reg_bound, iti_first, iti_later,
             resized_true, n_convert, first_dtype, n_alloc, freed>>
\* what the queue and lifecycle actions leave alone
encAll == <<enc, krs, yielded>>
regAll == <<regVars, reg, regHist, encAll>>
vars == <<queueVars, globalVars, threadVars, histVars, env, regAll>>

Range(s) == {s[k] : k \in 1..Len(s)}

\* ============================================================ ScheduledQueue
\* _sq.push_back(entry)
PushBackMutant(sq, entry) == <<entry>> \o sq
PushBack(sq, entry) == Append(sq, entry)

\* _sq.pop_front()
PopFrontMutant(sq) == sq
PopFront(sq) == Tail(sq)

\* _sq.size()
SizeMutant(sq) == Len(sq) + 1
Size(sq) == Len(sq)

\* std::lock_guard<std::mutex> lock(_mutex): blocks until the mutex is free
LockGuard(t, q) ==
    /\ _mutex[q] = NoThread
    /\ _mutex' = [_mutex EXCEPT ![q] = t]

\* the guard's destructor, at the return
Unlock(t, q) ==
    /\ _mutex[q] = t
    /\ _mutex' = [_mutex EXCEPT ![q] = NoThread]

\* addTask, after the lock: push_back and return
addTask(t, q, entry) ==
    /\ Unlock(t, q)
    /\ _sq' = [_sq EXCEPT ![q] = PushBack(@, entry)]
    /\ UNCHANGED <<_finished, sq_ub>>

\* getTask, after the lock: front(), pop_front(), return front.  On an empty
\* deque both calls are undefined: front() hands back whatever lies there and
\* the deque is left in no defined state (sq_ub).
getTask(t, q, front) ==
    /\ Unlock(t, q)
    /\ IF _sq[q] # <<>> /\ ~sq_ub[q]
       THEN /\ front = Head(_sq[q])
            /\ _sq' = [_sq EXCEPT ![q] = PopFront(@)]
            /\ UNCHANGED sq_ub
       ELSE /\ front \in Entries \cup {GarbageEntry}
            /\ sq_ub' = [sq_ub EXCEPT ![q] = TRUE]
            /\ UNCHANGED _sq
    /\ UNCHANGED _finished

\* peekTask, after the lock: return _sq.front()
peekTask(t, q, front) ==
    /\ Unlock(t, q)
    /\ IF _sq[q] # <<>> /\ ~sq_ub[q]
       THEN front = Head(_sq[q])
       ELSE front \in Entries \cup {GarbageEntry}
    /\ UNCHANGED <<_sq, _finished, sq_ub>>

\* pendingSize, after the lock: return _sq.size()
pendingSize(t, q, n) ==
    /\ Unlock(t, q)
    /\ IF sq_ub[q] THEN n \in 0..MaxTasks ELSE n = Size(_sq[q])
    /\ UNCHANGED <<_sq, _finished, sq_ub>>

\* reportFinish: _finished++, under no lock
reportFinish(q) ==
    /\ _finished' = [_finished EXCEPT ![q] = @ + 1]
    /\ UNCHANGED <<_sq, _mutex, sq_ub>>

\* BytePSGlobal::GetScheduledQueue
GetScheduledQueue(queueType) == _queues[queueType]

\* ------------------------------------------------------------ the producers
IdleProd == [pc |-> "idle", q |-> 0, entry |-> 0]

\* A producer thread calls GetScheduledQueue(q)->addTask(entry) with an entry
\* that was never queued before.
ProducerCall(p) ==
    /\ prod[p].pc = "idle"
    /\ n_tasks < MaxTasks
    /\ \E q \in QueueTypes :
        /\ GetScheduledQueue(q) # NULL
        /\ prod' = [prod EXCEPT ![p] = [pc |-> "addTask:lock", q |-> q, entry |-> n_tasks + 1]]
        /\ before' = [before EXCEPT ![n_tasks + 1] = Range(completed[q])]
    /\ n_tasks' = n_tasks + 1
    /\ UNCHANGED <<queueVars, globalVars, caller, wk, check_status, env, regAll,
                   n_comm_init, n_ps_start, n_stream_create, n_queue_create,
                   first_topology, completed, returned, on_empty>>

ProducerLock(p) ==
    /\ prod[p].pc = "addTask:lock"
    /\ LockGuard(ProducerT(p), prod[p].q)
    /\ prod' = [prod EXCEPT ![p].pc = "addTask:body"]
    /\ UNCHANGED <<_sq, _finished, sq_ub, globalVars, caller, wk, check_status, env, regAll, histVars>>

ProducerAdd(p) ==
    /\ prod[p].pc = "addTask:body"
    /\ addTask(ProducerT(p), prod[p].q, prod[p].entry)
    /\ prod' = [prod EXCEPT ![p] = IdleProd]
    /\ completed' = [completed EXCEPT ![prod[p].q] = Append(@, prod[p].entry)]
    /\ UNCHANGED <<globalVars, caller, wk, check_status, env, regAll,
                   n_comm_init, n_ps_start, n_stream_create, n_queue_create,
                   first_topology, n_tasks, returned, before, on_empty>>

\* ------------------------------------------------------------- the workers
\* The loop function Start() is given for stage i: poll the stage's queue,
\* take what is there, and leave once the shutdown flag is seen.
WorkerFrame(pc) == [pc |-> pc, seen |-> 0, task |-> 0]

\* a worker calls getTask or peekTask only after pendingSize() said > 0
MayTake(i) == wk[i].seen > 0

WorkerLoop(i) ==
    /\ wk[i].pc = "loop"
    /\ wk' = [wk EXCEPT ![i] = WorkerFrame(IF _should_shutdown THEN "exited" ELSE "pendingSize:lock")]
    /\ UNCHANGED <<queueVars, globalVars, caller, prod, check_status, env, regAll, histVars>>

WorkerLock(i) ==
    /\ wk[i].pc \in {"pendingSize:lock", "peekTask:lock", "getTask:lock"}
    /\ LockGuard(WorkerT(i), i)
    /\ wk' = [wk EXCEPT ![i].pc =
                 CASE wk[i].pc = "pendingSize:lock" -> "pendingSize:body"
                   [] wk[i].pc = "peekTask:lock" -> "peekTask:body"
                   [] OTHER -> "getTask:body"]
    /\ UNCHANGED <<_sq, _finished, sq_ub, globalVars, caller, prod, check_status, env, regAll, histVars>>

WorkerPendingSize(i) ==
    /\ wk[i].pc = "pendingSize:body"
    /\ \E n \in 0..MaxTasks :
        /\ pendingSize(WorkerT(i), i, n)
        /\ wk' = [wk EXCEPT ![i] = [pc |-> "decide", seen |-> n, task |-> 0]]
    /\ UNCHANGED <<globalVars, caller, prod, check_status, env, regAll, histVars>>

WorkerDecide(i) ==
    /\ wk[i].pc = "decide"
    /\ \/ /\ MayTake(i)
          /\ \E next \in {"peekTask:lock", "getTask:lock"} :
                wk' = [wk EXCEPT ![i].pc = next]
       \/ /\ wk[i].seen = 0
          /\ wk' = [wk EXCEPT ![i] = WorkerFrame("loop")]
    /\ UNCHANGED <<queueVars, globalVars, caller, prod, check_status, env, regAll, histVars>>

WorkerPeek(i) ==
    /\ wk[i].pc = "peekTask:body"
    /\ \E front \in Entries \cup {GarbageEntry} :
        /\ peekTask(WorkerT(i), i, front)
        /\ wk' = [wk EXCEPT ![i] = [pc |-> "getTask:lock", seen |-> @.seen, task |-> front]]
    /\ on_empty' = [on_empty EXCEPT ![i] = IF _sq[i] = <<>> THEN @ + 1 ELSE @]
    /\ UNCHANGED <<globalVars, caller, prod, check_status, env, regAll,
                   n_comm_init, n_ps_start, n_stream_create, n_queue_create,
                   first_topology, n_tasks, completed, returned, before>>

WorkerGet(i) ==
    /\ wk[i].pc = "getTask:body"
    /\ \E front \in Entries \cup {GarbageEntry} :
        /\ getTask(WorkerT(i), i, front)
        /\ wk' = [wk EXCEPT ![i] = [pc |-> "reportFinish", seen |-> @.seen, task |-> front]]
        /\ returned' = [returned EXCEPT ![i] = Append(@, front)]
    /\ on_empty' = [on_empty EXCEPT ![i] = IF _sq[i] = <<>> THEN @ + 1 ELSE @]
    /\ UNCHANGED <<globalVars, caller, prod, check_status, env, regAll,
                   n_comm_init, n_ps_start, n_stream_create, n_queue_create,
                   first_topology, n_tasks, completed, before>>

WorkerReport(i) ==
    /\ wk[i].pc = "reportFinish"
    /\ reportFinish(i)
    /\ wk' = [wk EXCEPT ![i] = WorkerFrame("loop")]
    /\ UNCHANGED <<globalVars, caller, prod, check_status, env, regAll, histVars>>

\* ============================================================ machine words
\* Byte counts are kept in units of Unit bytes, so that sizes beyond 2^31
\* bytes stay within the checker's integers.  Sums, differences, minima and
\* comparisons of multiples of Unit are multiples of Unit, and 2^31 and 2^32
\* are multiples of Unit, so the arithmetic below is exact for inputs that are
\* multiples of Unit; the model's inputs are.
Unit == 2^6
\* 2^32 bytes, the modulus of uint32_t (and of int), in units
UInt32Mod == 2^26
\* 2^31 bytes, one past INT_MAX, in units
Int32Half == 2^25

\* conversion to uint32_t
ToUInt32(v) == v % UInt32Mod

\* conversion of an unsigned value to int: modulo 2^32, two's complement
ToInt32(v) == IF v % UInt32Mod >= Int32Half THEN (v % UInt32Mod) - UInt32Mod ELSE v % UInt32Mod

\* `accumulated < size`, int against size_t: the int is converted to size_t,
\* and a negative int becomes a value above 2^64 - 2^31, beyond every size
IntLessSizeT(a, s) == a >= 0 /\ a < s

\* ============================================================ the environment
\* getenv("BYTEPS_PARTITION_BOUND"): unset, or a text, kept as its characters
Unset == [set |-> FALSE, text |-> <<>>]
Text(t) == [set |-> TRUE, text |-> t]

Digits == <<"0", "1", "2", "3", "4", "5", "6", "7", "8", "9">>
IsDigit(ch) == \E d \in 1..10 : Digits[d] = ch
DigitVal(ch) == (CHOOSE d \in 1..10 : Digits[d] = ch) - 1

RECURSIVE AtoiDigits(_, _)
AtoiDigits(s, acc) ==
    IF s = <<>> \/ ~IsDigit(Head(s)) THEN acc
    ELSE AtoiDigits(Tail(s), acc * 10 + DigitVal(Head(s)))

RECURSIVE SkipSpace(_)
SkipSpace(s) == IF s # <<>> /\ Head(s) = " " THEN SkipSpace(Tail(s)) ELSE s

\* atoi: leading blanks, an optional sign, then digits up to the first
\* character that is none; 0 when there is no digit
atoi(str) ==
    LET s == SkipSpace(str) IN
    IF s = <<>> THEN 0
    ELSE IF Head(s) = "-" THEN 0 - AtoiDigits(Tail(s), 0)
    ELSE IF Head(s) = "+" THEN AtoiDigits(Tail(s), 0)
    ELSE AtoiDigits(s, 0)

\* uint32_t _partition_bound = 512000, in elements (units of Unit elements)
DefaultPartitionBound == 512000 \div Unit

\* `_partition_bound = atoi(getenv(..))`: an int stored into a uint32_t
BoundFromEnv(e, bound) ==
    IF e.set THEN ToUInt32(atoi(e.text) \div Unit) ELSE bound

\* The values of the variable the model runs with: unset, not a number, zero,
\* a negative number, and two element counts.
EnvValues ==
    { Unset,
      Text(<<"a", "b", "c">>),
      Text(<<"0">>),
      Text(<<"-", "6", "4">>),
      Text(<<"1", "2", "8">>),
      Text(<<"2", "6", "8", "4", "3", "5", "4", "5", "6">>) }

\* ============================================================ the registry
NumRegThreads == 2
\* keys next_key_ hands out before the model stops counting
MaxKeys == 12

RegThreads == 1..NumRegThreads
RegT(r) == <<"reg", r>>
Names == {"grad0", "grad1"}

CPU_DEVICE_ID == 0 - 1
Devices == {CPU_DEVICE_ID, 0}

DataTypes == {"BYTEPS_UINT8", "BYTEPS_INT8", "BYTEPS_FLOAT16", "BYTEPS_FLOAT32",
              "BYTEPS_INT32", "BYTEPS_FLOAT64", "BYTEPS_INT64"}

\* tensor sizes in units: 0 bytes, 1,000,000 bytes, 3,000,000 bytes, 4 GiB
Sizes == {0, 1000000 \div Unit, 3000000 \div Unit, 2^26}
NoSize == 0 - 1

\* a value-initialized BPSContext, as operator[] inserts it
DefaultContext == [key_list |-> <<>>, cpubuff |-> 0, buff_len |-> 0]

\* _name_to_cxt[name]: the entry, inserted value-initialized when absent
Subscript(map, name) ==
    IF name \in DOMAIN map THEN map
    ELSE [n \in DOMAIN map \cup {name} |-> IF n = name THEN DefaultContext ELSE map[n]]

\* the switch of ConvertBoundToBytes
BytePerParam(dtype) ==
    CASE dtype \in {"BYTEPS_UINT8", "BYTEPS_INT8"} -> 1
      [] dtype = "BYTEPS_FLOAT16" -> 2
      [] dtype \in {"BYTEPS_FLOAT32", "BYTEPS_INT32"} -> 4
      [] dtype \in {"BYTEPS_FLOAT64", "BYTEPS_INT64"} -> 8

\* bound *= byte_per_param, on a uint32_t
ConvertBoundToBytes(dtype, bound) == ToUInt32(bound * BytePerParam(dtype))

\* `if (next_key_ == 0)`: only the first registration converts
ShouldConvert == next_key_ = 0

\* next_key_++ (an unsigned int: it wraps at 2^32, beyond MaxKeys)
NextKeyMutant(k) == k
NextKey(k) == k + 1

\* ((size - accumulated) > _partition_bound) ? _partition_bound : (size - accumulated)
Chunk(size, accumulated, bound) ==
    IF size - accumulated > bound THEN bound ELSE size - accumulated

\* `_name_to_cxt.find(name) == _name_to_cxt.end()`
NotFoundMutant(name) == TRUE
NotFound(name) == name \notin DOMAIN _name_to_cxt

\* a thread between two calls
\* what a registry call leaves alone: the queues and the lifecycle
RegFrame ==
    UNCHANGED <<queueVars, _init_mutex, _initialized, _should_shutdown, _rank,
                _local_rank, _size, _local_size, _comm, _ps, _reduce_stream,
                _broadcast_stream, _queues, _queues_mutex, _threads, threadVars,
                histVars, env, encAll>>

IdleReg == [pc |-> "idle", name |-> "", size |-> 0, accumulated |-> 0]

\* a return of IsTensorInitialized(name, ..), for the properties
NoteReturn(name, ret) ==
    /\ iti_first' = [iti_first EXCEPT ![name] = IF @ = "none" THEN ret ELSE @]
    /\ iti_later' = [iti_later EXCEPT ![name] = IF iti_first[name] = "none" THEN @ ELSE @ \cup {ret}]

\* IsTensorInitialized(name, size, device, dtype): the call and its lock_guard
IsTensorInitialized_lock(r) ==
    /\ ~aborted
    /\ RegFrame
    /\ reg[r].pc = "idle"
    /\ _encode_mutex = NoThread
    /\ _encode_mutex' = RegT(r)
    /\ \E name \in Names, size \in Sizes :
          reg' = [reg EXCEPT ![r] = [pc |-> "ITI:check", name |-> name, size |-> size, accumulated |-> 0]]
    /\ UNCHANGED <<_name_to_cxt, next_key_, ps_kv_, aborted, _partition_bound, regHist>>

\* BPS_CHECK_GT(size, 0), the lookup, and for a new name the bound's
\* conversion and the staging buffer
IsTensorInitialized_check(r) ==
    LET name == reg[r].name
        size == reg[r].size
    IN
    /\ ~aborted
    /\ RegFrame
    /\ reg[r].pc = "ITI:check"
    /\ IF ~(size > 0)
       THEN /\ aborted' = TRUE
            /\ reg' = [reg EXCEPT ![r].pc = "fatal"]
            /\ UNCHANGED <<_encode_mutex, _name_to_cxt, next_key_, ps_kv_, _partition_bound, regHist>>
       ELSE IF NotFound(name)
       THEN \E dtype \in DataTypes, device \in Devices :
            /\ IF ShouldConvert
               THEN /\ _partition_bound' = ConvertBoundToBytes(dtype, _partition_bound)
                    /\ n_convert' = n_convert + 1
               ELSE UNCHANGED <<_partition_bound, n_convert>>
            /\ IF device # CPU_DEVICE_ID
               THEN /\ _name_to_cxt' = [Subscript(_name_to_cxt, name) EXCEPT
                                           ![name].cpubuff = n_alloc + 1,
                                           ![name].buff_len = size]
                    /\ n_alloc' = n_alloc + 1
               ELSE UNCHANGED <<_name_to_cxt, n_alloc>>
            /\ first_dtype' = IF first_dtype = "none" THEN dtype ELSE first_dtype
            /\ reg_size' = [reg_size EXCEPT ![name] = size]
            /\ reg_bound' = [reg_bound EXCEPT ![name] = _partition_bound']
            /\ reg' = [reg EXCEPT ![r].pc = "ITI:loop"]
            /\ UNCHANGED <<_encode_mutex, next_key_, ps_kv_, aborted, issued, chunks,
                           iti_first, iti_later, resized_true, freed>>
       ELSE \* return true
            /\ _encode_mutex' = NoThread
            /\ reg' = [reg EXCEPT ![r] = IdleReg]
            /\ NoteReturn(name, "true")
            /\ \E dtype \in DataTypes :
                  first_dtype' = IF first_dtype = "none" THEN dtype ELSE first_dtype
            /\ resized_true' = IF reg_size[name] # NoSize /\ reg_size[name] # size
                               THEN resized_true \cup {name} ELSE resized_true
            /\ UNCHANGED <<_name_to_cxt, next_key_, ps_kv_, aborted, _partition_bound,
                           issued, chunks, reg_size, reg_bound, n_convert, n_alloc, freed>>

\* one turn of `while (accumulated < size)`, or the return after it
IsTensorInitialized_loop(r) ==
    LET name == reg[r].name
        size == reg[r].size
        accumulated == reg[r].accumulated
        chunk == Chunk(size, accumulated, _partition_bound)
    IN
    /\ ~aborted
    /\ RegFrame
    /\ reg[r].pc = "ITI:loop"
    /\ IF IntLessSizeT(accumulated, size)
       THEN /\ next_key_ < MaxKeys
            /\ _name_to_cxt' = [Subscript(_name_to_cxt, name) EXCEPT
                                   ![name].key_list = Append(@, next_key_)]
            /\ next_key_' = NextKey(next_key_)
            /\ reg' = [reg EXCEPT ![r].accumulated = ToInt32(accumulated + chunk)]
            /\ issued' = Append(issued, next_key_)
            /\ chunks' = [chunks EXCEPT ![name] = Append(@, chunk)]
            /\ UNCHANGED <<_encode_mutex, ps_kv_, aborted, _partition_bound, reg_size,
                           reg_bound, iti_first, iti_later, resized_true, n_convert, first_dtype,
                           n_alloc, freed>>
       ELSE \* return false
            /\ _encode_mutex' = NoThread
            /\ reg' = [reg EXCEPT ![r] = IdleReg]
            /\ NoteReturn(name, "false")
            /\ UNCHANGED <<_name_to_cxt, next_key_, ps_kv_, aborted, _partition_bound,
                           issued, chunks, reg_size, reg_bound, resized_true, n_convert, first_dtype,
                           n_alloc, freed>>

\* GetContextFromName(name): the call and its lock_guard
GetContextFromName_lock(r) ==
    /\ ~aborted
    /\ RegFrame
    /\ reg[r].pc = "idle"
    /\ _encode_mutex = NoThread
    /\ _encode_mutex' = RegT(r)
    /\ \E name \in Names :
          reg' = [reg EXCEPT ![r] = [pc |-> "GCFN:body", name |-> name, size |-> 0, accumulated |-> 0]]
    /\ UNCHANGED <<_name_to_cxt, next_key_, ps_kv_, aborted, _partition_bound, regHist>>

\* return _name_to_cxt[name]
GetContextFromName(r) ==
    /\ ~aborted
    /\ RegFrame
    /\ reg[r].pc = "GCFN:body"
    /\ _name_to_cxt' = Subscript(_name_to_cxt, reg[r].name)
    /\ _encode_mutex' = NoThread
    /\ reg' = [reg EXCEPT ![r] = IdleReg]
    /\ UNCHANGED <<next_key_, ps_kv_, aborted, _partition_bound, regHist>>

\* GetTensorCount(): the call and its lock_guard
GetTensorCount_lock(r) ==
    /\ ~aborted
    /\ RegFrame
    /\ reg[r].pc = "idle"
    /\ _encode_mutex = NoThread
    /\ _encode_mutex' = RegT(r)
    /\ reg' = [reg EXCEPT ![r] = [pc |-> "GTC:body", name |-> "", size |-> 0, accumulated |-> 0]]
    /\ UNCHANGED <<_name_to_cxt, next_key_, ps_kv_, aborted, _partition_bound, regHist>>

\* return _name_to_cxt.size()
GetTensorCount(r) ==
    /\ ~aborted
    /\ RegFrame
    /\ reg[r].pc = "GTC:body"
    /\ _encode_mutex' = NoThread
    /\ \E count \in {Cardinality(DOMAIN _name_to_cxt)} :
          reg' = [reg EXCEPT ![r] = IdleReg]
    /\ UNCHANGED <<_name_to_cxt, next_key_, ps_kv_, aborted, _partition_bound, regHist>>

\* ============================================================ key-to-server encoding
NumEncThreads == 2
EncThreads == 1..NumEncThreads
EncT(e) == <<"enc", e>>

\* The partition keys the model encodes: a small one, and the first one whose
\* product with 9973 is above INT_MAX.
BigKey == 2147483647 \div 9973 + 1
EncKeys == {5, BigKey}
\* value lengths, in units
Lens == {1000000 \div Unit, 3000000 \div Unit}

\* ps::Postoffice::Get()->GetServerKeyRanges(): one [begin, end) per server,
\* the key space cut evenly
KeyRanges(n, width) == [s \in 1..n |-> [begin |-> (s - 1) * width, end |-> s * width]]
\* The lists the model runs with: no server, one and three servers with room
\* for every key, and two servers with room for four keys each.
KeyRangeLists == {KeyRanges(0, 2^20), KeyRanges(1, 2^20), KeyRanges(3, 2^20), KeyRanges(2, 4)}
\* what a read before the first element of the vector may find
GarbageRanges == {[begin |-> 0, end |-> 0], [begin |-> 2^22, end |-> 2^23]}

\* a value-initialized PSKV, as operator[] inserts it
DefaultPSKV == [keys |-> <<>>, lens |-> <<>>, size |-> 0]

\* ps_kv_[key]
SubscriptKV(map, key) ==
    IF key \in DOMAIN map THEN map
    ELSE [k \in DOMAIN map \cup {key} |-> IF k = key THEN DefaultPSKV ELSE map[k]]

\* a * b on int, for 0 <= a < 2^31 and 0 <= b < 2^15: the low 32 bits of the
\* product, read as two's complement (what the multiply instruction leaves
\* when the product is above INT_MAX), computed on 16-bit halves
MulInt32(a, b) ==
    LET lo_full == (a % 2^16) * b
        hi == ((a \div 2^16) * b + lo_full \div 2^16) % 2^16
        lo == lo_full % 2^16
    IN  IF hi >= 2^15 THEN (hi - 2^16) * 2^16 + lo ELSE hi * 2^16 + lo

\* a % n on int: the remainder has the sign of a
RemInt(a, n) ==
    IF a >= 0 THEN a % n
    ELSE IF a % n = 0 THEN 0 ELSE (a % n) - n

\* int server = (key * 9973) % num_servers
ServerOf(key, num_servers) == RemInt(MulInt32(key, 9973), num_servers)

\* krs[server]: inside the vector the element, outside whatever lies there
RangesAt(list, server) ==
    IF server \in 0..(Len(list) - 1) THEN {list[server + 1]} ELSE GarbageRanges

\* static_cast<size_t>(pskv.size) == len: a negative int is no size
SizeEquals(size, len) == size >= 0 /\ size = len

NoServer == 0 - 1000
IdleEnc == [pc |-> "idle", key |-> 0, len |-> 0]

\* what an EncodeDefaultKey call leaves alone
EncFrame ==
    UNCHANGED <<queueVars, globalVars, threadVars, histVars, env, _name_to_cxt,
                next_key_, reg, regHist, krs>>

\* EncodeDefaultKey(key, len): the call and _encode_mutex.lock()
EncodeDefaultKey_lock(e) ==
    /\ ~aborted
    /\ EncFrame
    /\ enc[e].pc = "idle"
    /\ _encode_mutex = NoThread
    /\ _encode_mutex' = EncT(e)
    /\ \E key \in EncKeys, len \in Lens :
          enc' = [enc EXCEPT ![e] = [pc |-> "EDK:lookup", key |-> key, len |-> len]]
    /\ UNCHANGED <<ps_kv_, aborted, yielded>>

\* PSKV& pskv = ps_kv_[key]; _encode_mutex.unlock()
EncodeDefaultKey_lookup(e) ==
    /\ ~aborted
    /\ EncFrame
    /\ enc[e].pc = "EDK:lookup"
    /\ ps_kv_' = SubscriptKV(ps_kv_, enc[e].key)
    /\ _encode_mutex' = NoThread
    /\ enc' = [enc EXCEPT ![e].pc = "EDK:test"]
    /\ UNCHANGED <<aborted, yielded>>

\* if (!pskv.keys.empty())
EncodeDefaultKey_test(e) ==
    /\ ~aborted
    /\ EncFrame
    /\ enc[e].pc = "EDK:test"
    /\ enc' = [enc EXCEPT ![e].pc = IF ps_kv_[enc[e].key].keys # <<>> THEN "EDK:size?" ELSE "EDK:keys"]
    /\ UNCHANGED <<_encode_mutex, ps_kv_, aborted, yielded>>

\* BPS_CHECK_EQ(static_cast<size_t>(pskv.size), len), then return pskv
EncodeDefaultKey_checksize(e) ==
    LET key == enc[e].key IN
    /\ ~aborted
    /\ EncFrame
    /\ enc[e].pc = "EDK:size?"
    /\ IF SizeEquals(ps_kv_[key].size, enc[e].len)
       THEN /\ enc' = [enc EXCEPT ![e] = IdleEnc]
            /\ yielded' = yielded \cup {[key |-> key, len |-> enc[e].len, server |-> NoServer,
                                         wire |-> ps_kv_[key].keys[1]]}
            /\ UNCHANGED aborted
       ELSE /\ aborted' = TRUE
            /\ enc' = [enc EXCEPT ![e].pc = "fatal"]
            /\ UNCHANGED yielded
    /\ UNCHANGED <<_encode_mutex, ps_kv_>>

\* the new entry: the key ranges, BPS_CHECK_GT(num_servers, 0), the server,
\* ps_key, BPS_CHECK_LT(ps_key, krs[server].end()), pskv.keys.push_back(ps_key)
EncodeDefaultKey_keys(e) ==
    LET key == enc[e].key
        num_servers == Len(krs)
    IN
    /\ ~aborted
    /\ EncFrame
    /\ enc[e].pc = "EDK:keys"
    /\ IF ~(num_servers > 0)
       THEN /\ aborted' = TRUE
            /\ enc' = [enc EXCEPT ![e].pc = "fatal"]
            /\ UNCHANGED ps_kv_
       ELSE \E range \in RangesAt(krs, ServerOf(key, num_servers)) :
            LET ps_key == range.begin + key IN
            IF ps_key < range.end
            THEN /\ ps_kv_' = [ps_kv_ EXCEPT ![key].keys = Append(@, ps_key)]
                 /\ enc' = [enc EXCEPT ![e].pc = "EDK:lens"]
                 /\ UNCHANGED aborted
            ELSE /\ aborted' = TRUE
                 /\ enc' = [enc EXCEPT ![e].pc = "fatal"]
                 /\ UNCHANGED ps_kv_
    /\ UNCHANGED <<_encode_mutex, yielded>>

\* pskv.lens.push_back(len)
EncodeDefaultKey_lens(e) ==
    /\ ~aborted
    /\ EncFrame
    /\ enc[e].pc = "EDK:lens"
    /\ ps_kv_' = [ps_kv_ EXCEPT ![enc[e].key].lens = Append(@, ToInt32(enc[e].len))]
    /\ enc' = [enc EXCEPT ![e].pc = "EDK:size"]
    /\ UNCHANGED <<_encode_mutex, aborted, yielded>>

\* pskv.size = len; return pskv
EncodeDefaultKey_size(e) ==
    LET key == enc[e].key IN
    /\ ~aborted
    /\ EncFrame
    /\ enc[e].pc = "EDK:size"
    /\ ps_kv_' = [ps_kv_ EXCEPT ![key].size = ToInt32(enc[e].len)]
    /\ enc' = [enc EXCEPT ![e] = IdleEnc]
    /\ yielded' = yielded \cup {[key |-> key, len |-> enc[e].len,
                                 server |-> ServerOf(key, Len(krs)),
                                 wire |-> ps_kv_[key].keys[1]]}
    /\ UNCHANGED <<_encode_mutex, aborted>>

\* ============================================================ BytePSGlobal lifecycle
\* what _comm->init may write: rank, size, local_rank, local_size
Topologies == {<<0, 2, 0, 1>>, <<1, 2, 0, 1>>}

topoVars == <<_rank, _local_rank, _size, _local_size>>
NoTopology == <<>>

\* Init, Start, Shutdown and CheckInit run while the process lives; what they
\* leave alone
LifeRest ==
    /\ ~aborted
    /\ UNCHANGED <<queueVars, prod, n_tasks, completed, returned, before, on_empty, env,
                   _encode_mutex, _name_to_cxt, next_key_, ps_kv_, reg, encAll, issued,
                   chunks, reg_size, reg_bound, iti_first, iti_later, resized_true,
                   n_convert, first_dtype, n_alloc>>

LifeFrame == LifeRest /\ UNCHANGED aborted

\* `if (_initialized)`
AlreadyInitialized == _initialized

\* Init(): the call and std::lock_guard<std::mutex> lock(_init_mutex)
Init_lock(c) ==
    /\ LifeFrame
    /\ caller[c].pc = "idle"
    /\ _init_mutex = NoThread
    /\ _init_mutex' = CallerT(c)
    /\ caller' = [caller EXCEPT ![c].pc = "Init:check"]
    /\ UNCHANGED <<_initialized, _should_shutdown, topoVars, _partition_bound, _comm, _ps,
                   _reduce_stream, _broadcast_stream, _queues, _queues_mutex, _threads,
                   wk, check_status, n_comm_init, n_ps_start, n_stream_create,
                   n_queue_create, first_topology, freed>>

\* We only init once: `if (_initialized) return;`
Init_check(c) ==
    /\ LifeFrame
    /\ caller[c].pc = "Init:check"
    /\ IF AlreadyInitialized
       THEN /\ _init_mutex' = NoThread
            /\ caller' = [caller EXCEPT ![c].pc = "ready"]
       ELSE /\ caller' = [caller EXCEPT ![c].pc = "Init:comm"]
            /\ UNCHANGED _init_mutex
    /\ UNCHANGED <<_initialized, _should_shutdown, topoVars, _partition_bound, _comm, _ps,
                   _reduce_stream, _broadcast_stream, _queues, _queues_mutex, _threads,
                   wk, check_status, n_comm_init, n_ps_start, n_stream_create,
                   n_queue_create, first_topology, freed>>

\* _comm = make_shared<..>(); _comm->init(&_rank, &_size, &_local_rank, &_local_size)
Init_comm(c) ==
    /\ LifeFrame
    /\ caller[c].pc = "Init:comm"
    /\ _comm' = "comm"
    /\ \E topo \in Topologies :
        /\ _rank' = topo[1] /\ _size' = topo[2] /\ _local_rank' = topo[3] /\ _local_size' = topo[4]
        /\ first_topology' = IF n_comm_init = 0 THEN topo ELSE first_topology
    /\ n_comm_init' = n_comm_init + 1
    /\ caller' = [caller EXCEPT ![c].pc = "Init:env"]
    /\ UNCHANGED <<_init_mutex, _initialized, _should_shutdown, _partition_bound, _ps,
                   _reduce_stream, _broadcast_stream, _queues, _queues_mutex, _threads,
                   wk, check_status, n_ps_start, n_stream_create, n_queue_create, freed>>

\* if (getenv("BYTEPS_PARTITION_BOUND")) _partition_bound = atoi(getenv(..))
Init_env(c) ==
    /\ LifeFrame
    /\ caller[c].pc = "Init:env"
    /\ _partition_bound' = BoundFromEnv(env, _partition_bound)
    /\ caller' = [caller EXCEPT ![c].pc = "Init:ps"]
    /\ UNCHANGED <<_init_mutex, _initialized, _should_shutdown, topoVars, _comm, _ps,
                   _reduce_stream, _broadcast_stream, _queues, _queues_mutex, _threads,
                   wk, check_status, n_comm_init, n_ps_start, n_stream_create,
                   n_queue_create, first_topology, freed>>

\* _ps = new ps::KVWorker<char>(0, 0); ps::StartAsync(..); the barrier
Init_ps(c) ==
    /\ LifeFrame
    /\ caller[c].pc = "Init:ps"
    /\ _ps' = "started"
    /\ n_ps_start' = n_ps_start + 1
    /\ caller' = [caller EXCEPT ![c].pc = "Init:streams"]
    /\ UNCHANGED <<_init_mutex, _initialized, _should_shutdown, topoVars, _partition_bound,
                   _comm, _reduce_stream, _broadcast_stream, _queues, _queues_mutex,
                   _threads, wk, check_status, n_comm_init, n_stream_create,
                   n_queue_create, first_topology, freed>>

\* the two cudaStreamCreateWithFlags calls
Init_streams(c) ==
    /\ LifeFrame
    /\ caller[c].pc = "Init:streams"
    /\ _reduce_stream' = "created"
    /\ _broadcast_stream' = "created"
    /\ n_stream_create' = n_stream_create + 1
    /\ caller' = [caller EXCEPT ![c] = [pc |-> "Init:queues", i |-> 0]]
    /\ UNCHANGED <<_init_mutex, _initialized, _should_shutdown, topoVars, _partition_bound,
                   _comm, _ps, _queues, _queues_mutex, _threads, wk, check_status,
                   n_comm_init, n_ps_start, n_queue_create, first_topology, freed>>

\* CreateScheduledQueue(queueType): under _queues_mutex[queueType], make the
\* queue if there is none.  The function is declared void* and has no return
\* statement, so flowing off its end is undefined.  A build either returns
\* to the caller (which drops the value), or never returns: the process ends
\* there, in optimized builds after the code that follows the unlock has
\* made the queue once more (again > 0).
CreateScheduledQueue(queueType) ==
    LET made == IF _queues[queueType] = NULL THEN 1 ELSE 0 IN
    /\ _queues_mutex[queueType] = NoThread
    /\ \/ /\ IF made = 1
             THEN /\ _queues' = [_queues EXCEPT ![queueType] = "queue"]
                  /\ n_queue_create' = [n_queue_create EXCEPT ![queueType] = @ + 1]
             ELSE UNCHANGED <<_queues, n_queue_create>>
          /\ UNCHANGED aborted
       \/ /\ \E again \in {0, 1} :
                n_queue_create' = [n_queue_create EXCEPT ![queueType] = @ + made + again]
          /\ _queues' = [_queues EXCEPT ![queueType] = "queue"]
          /\ aborted' = TRUE
    /\ UNCHANGED _queues_mutex

\* one turn of `for (int i = 0; i < QueueNum; i++) CreateScheduledQueue(i)`
Init_queues(c) ==
    /\ LifeRest
    /\ caller[c].pc = "Init:queues"
    /\ CreateScheduledQueue(caller[c].i)
    /\ caller' = [caller EXCEPT ![c] =
                     IF caller[c].i + 1 < QueueNum
                     THEN [pc |-> "Init:queues", i |-> caller[c].i + 1]
                     ELSE [pc |-> "Init:flag", i |-> 0]]
    /\ UNCHANGED <<_init_mutex, _initialized, _should_shutdown, topoVars, _partition_bound,
                   _comm, _ps, _reduce_stream, _broadcast_stream, _threads, wk,
                   check_status, n_comm_init, n_ps_start, n_stream_create,
                   first_topology, freed>>

\* _initialized = true
Init_flag(c) ==
    /\ LifeFrame
    /\ caller[c].pc = "Init:flag"
    /\ _initialized' = TRUE
    /\ caller' = [caller EXCEPT ![c].pc = "Init:return"]
    /\ UNCHANGED <<_init_mutex, _should_shutdown, topoVars, _partition_bound, _comm, _ps,
                   _reduce_stream, _broadcast_stream, _queues, _queues_mutex, _threads,
                   wk, check_status, n_comm_init, n_ps_start, n_stream_create,
                   n_queue_create, first_topology, freed>>

\* return: the lock_guard lets go of _init_mutex
Init_return(c) ==
    /\ LifeFrame
    /\ caller[c].pc = "Init:return"
    /\ _init_mutex' = NoThread
    /\ caller' = [caller EXCEPT ![c].pc = "ready"]
    /\ UNCHANGED <<_initialized, _should_shutdown, topoVars, _partition_bound, _comm, _ps,
                   _reduce_stream, _broadcast_stream, _queues, _queues_mutex, _threads,
                   wk, check_status, n_comm_init, n_ps_start, n_stream_create,
                   n_queue_create, first_topology, freed>>

\* CheckInit()
CheckInit == IF _initialized THEN "OK" ELSE "PreconditionError"

\* The lifecycle state the runtime is in: Stopped once Shutdown() has
\* returned, ShuttingDown while it runs, Running from the moment Init() has
\* set the flag, Initializing while a first Init() is at work.
LifecycleState ==
    CASE caller[Host].pc = "stopped" -> "Stopped"
      [] caller[Host].pc \in {"Shutdown:join", "Shutdown:finalize", "Shutdown:streams",
                              "Shutdown:free"} -> "ShuttingDown"
      [] _initialized -> "Running"
      [] \E c \in Callers : caller[c].pc \in {"Init:comm", "Init:env", "Init:ps",
                              "Init:streams", "Init:queues", "Init:flag"} -> "Initializing"
      [] OTHER -> "Uninitialized"

NoCheck == [status |-> "none", state |-> "none"]

\* any thread calls CheckInit(): what it returns, and the state it was called in
CheckInit_call ==
    /\ LifeFrame
    /\ check_status' = [status |-> CheckInit, state |-> LifecycleState]
    /\ check_status' # check_status
    /\ UNCHANGED <<globalVars, caller, wk, n_comm_init, n_ps_start, n_stream_create,
                   n_queue_create, first_topology, freed>>

\* Start(func), called by the host once its Init() has returned: one turn of
\* `_threads[i] = new std::thread(func[i])`
Start(c) ==
    /\ LifeFrame
    /\ c = Host
    /\ caller[c].pc \in {"ready", "Start"}
    /\ _threads' = [_threads EXCEPT ![caller[c].i] = "running"]
    /\ wk' = [wk EXCEPT ![caller[c].i] = WorkerFrame("loop")]
    /\ caller' = [caller EXCEPT ![c] =
                     IF caller[c].i + 1 < ThreadNum
                     THEN [pc |-> "Start", i |-> caller[c].i + 1]
                     ELSE [pc |-> "started", i |-> 0]]
    /\ UNCHANGED <<_init_mutex, _initialized, _should_shutdown, topoVars, _partition_bound,
                   _comm, _ps, _reduce_stream, _broadcast_stream, _queues, _queues_mutex,
                   check_status, n_comm_init, n_ps_start, n_stream_create,
                   n_queue_create, first_topology, freed>>

\* Shutdown(), called by the host after Start(): _should_shutdown = true
ShutdownFlagMutant == _should_shutdown
ShutdownFlag == TRUE

Shutdown_flag(c) ==
    /\ LifeFrame
    /\ c = Host
    /\ caller[c].pc = "started"
    /\ _should_shutdown' = ShutdownFlag
    /\ caller' = [caller EXCEPT ![c] = [pc |-> "Shutdown:join", i |-> 0]]
    /\ UNCHANGED <<_init_mutex, _initialized, topoVars, _partition_bound, _comm, _ps,
                   _reduce_stream, _broadcast_stream, _queues, _queues_mutex, _threads,
                   wk, check_status, n_comm_init, n_ps_start, n_stream_create,
                   n_queue_create, first_topology, freed>>

\* one turn of the join loop: `if (_threads[i]->joinable())`, join() waits
\* for worker i to leave its loop function, then `delete _threads[i]`
Shutdown_join(c) ==
    /\ LifeFrame
    /\ caller[c].pc = "Shutdown:join"
    /\ IF _threads[caller[c].i] = "running"
       THEN /\ wk[caller[c].i].pc = "exited"
            /\ _threads' = [_threads EXCEPT ![caller[c].i] = "deleted"]
       ELSE UNCHANGED _threads
    /\ caller' = [caller EXCEPT ![c] =
                     IF caller[c].i + 1 < ThreadNum
                     THEN [pc |-> "Shutdown:join", i |-> caller[c].i + 1]
                     ELSE [pc |-> "Shutdown:finalize", i |-> 0]]
    /\ UNCHANGED <<_init_mutex, _initialized, _should_shutdown, topoVars, _partition_bound,
                   _comm, _ps, _reduce_stream, _broadcast_stream, _queues, _queues_mutex,
                   wk, check_status, n_comm_init, n_ps_start, n_stream_create,
                   n_queue_create, first_topology, freed>>

\* ps::Finalize(0, true)
Shutdown_finalize(c) ==
    /\ LifeFrame
    /\ caller[c].pc = "Shutdown:finalize"
    /\ _ps' = "finalized"
    /\ caller' = [caller EXCEPT ![c].pc = "Shutdown:streams"]
    /\ UNCHANGED <<_init_mutex, _initialized, _should_shutdown, topoVars, _partition_bound,
                   _comm, _reduce_stream, _broadcast_stream, _queues, _queues_mutex,
                   _threads, wk, check_status, n_comm_init, n_ps_start, n_stream_create,
                   n_queue_create, first_topology, freed>>

\* the two cudaStreamDestroy calls
Shutdown_streams(c) ==
    /\ LifeFrame
    /\ caller[c].pc = "Shutdown:streams"
    /\ _reduce_stream' = "destroyed"
    /\ _broadcast_stream' = "destroyed"
    /\ caller' = [caller EXCEPT ![c].pc = "Shutdown:free"]
    /\ UNCHANGED <<_init_mutex, _initialized, _should_shutdown, topoVars, _partition_bound,
                   _comm, _ps, _queues, _queues_mutex, _threads, wk, check_status,
                   n_comm_init, n_ps_start, n_stream_create, n_queue_create,
                   first_topology, freed>>

\* the sequences that hold each element of set S once
Orders(S) == {s \in [1..Cardinality(S) -> S] : \A x \in S : \E k \in 1..Cardinality(S) : s[k] = x}

\* for (auto &it : _name_to_cxt) cudaFreeHost(it.second.cpubuff); return
Shutdown_free(c) ==
    /\ LifeFrame
    /\ caller[c].pc = "Shutdown:free"
    /\ \E order \in Orders(DOMAIN _name_to_cxt) :
          freed' = freed \o [k \in 1..Len(order) |-> _name_to_cxt[order[k]].cpubuff]
    /\ caller' = [caller EXCEPT ![c].pc = "stopped"]
    /\ UNCHANGED <<globalVars, wk, check_status, n_comm_init, n_ps_start, n_stream_create,
                   n_queue_create, first_topology>>

\* ============================================================ the runs
EmptyMap == [n \in {} |-> DefaultContext]

\* the queues, the lifecycle and the threads of the other parts, at rest
RestQueues ==
    /\ _sq = [q \in QueueTypes |-> <<>>]
    /\ _mutex = [q \in QueueTypes |-> NoThread]
    /\ _finished = [q \in QueueTypes |-> 0]
    /\ sq_ub = [q \in QueueTypes |-> FALSE]
    /\ prod = [p \in Producers |-> IdleProd]
    /\ n_tasks = 0
    /\ completed = [q \in QueueTypes |-> <<>>]
    /\ returned = [q \in QueueTypes |-> <<>>]
    /\ before = [e \in Entries |-> {}]
    /\ on_empty = [q \in QueueTypes |-> 0]

RestRegistry ==
    /\ _encode_mutex = NoThread
    /\ _name_to_cxt = EmptyMap
    /\ next_key_ = 0
    /\ ps_kv_ = EmptyMap
    /\ aborted = FALSE
    /\ reg = [r \in RegThreads |-> IdleReg]
    /\ issued = <<>>
    /\ chunks = [n \in Names |-> <<>>]
    /\ reg_size = [n \in Names |-> NoSize]
    /\ reg_bound = [n \in Names |-> 0]
    /\ iti_first = [n \in Names |-> "none"]
    /\ iti_later = [n \in Names |-> {}]
    /\ resized_true = {}
    /\ n_convert = 0
    /\ first_dtype = "none"
    /\ n_alloc = 0
    /\ freed = <<>>

RestEncode ==
    /\ enc = [e \in EncThreads |-> IdleEnc]
    /\ krs = <<>>
    /\ yielded = {}

\* the singleton once Init() and Start() have returned, under environment e
AfterStart(e) ==
    /\ env = e
    /\ _init_mutex = NoThread
    /\ _initialized = TRUE
    /\ _should_shutdown = FALSE
    /\ \E topo \in Topologies :
        /\ _rank = topo[1] /\ _size = topo[2] /\ _local_rank = topo[3] /\ _local_size = topo[4]
        /\ first_topology = topo
    /\ _partition_bound = BoundFromEnv(e, DefaultPartitionBound)
    /\ _comm = "comm"
    /\ _ps = "started"
    /\ _reduce_stream = "created"
    /\ _broadcast_stream = "created"
    /\ _queues = [q \in QueueTypes |-> "queue"]
    /\ _queues_mutex = [q \in QueueTypes |-> NoThread]
    /\ _threads = [i \in 0..(ThreadNum - 1) |-> "running"]
    /\ caller = [c \in Callers |-> [pc |-> IF c = Host THEN "started" ELSE "ready", i |-> 0]]
    /\ wk = [i \in 0..(ThreadNum - 1) |-> WorkerFrame("loop")]
    /\ check_status = NoCheck
    /\ n_comm_init = 1 /\ n_ps_start = 1 /\ n_stream_create = 1
    /\ n_queue_create = [q \in QueueTypes |-> 1]

\* Registration runs on an initialized runtime: the override unset, zero, or
\* 2^28 elements.
RegEnvValues ==
    { Unset, Text(<<"0">>), Text(<<"2", "6", "8", "4", "3", "5", "4", "5", "6">>) }

\* Registration runs on an initialized runtime.
InitReg ==
    /\ \E e \in RegEnvValues : AfterStart(e)
    /\ _rank = 0
    /\ RestQueues
    /\ RestRegistry
    /\ RestEncode

NextReg ==
    \/ \E r \in RegThreads : IsTensorInitialized_lock(r)
    \/ \E r \in RegThreads : IsTensorInitialized_check(r)
    \/ \E r \in RegThreads : IsTensorInitialized_loop(r)
    \/ \E r \in RegThreads : GetContextFromName_lock(r)
    \/ \E r \in RegThreads : GetContextFromName(r)
    \/ \E r \in RegThreads : GetTensorCount_lock(r)
    \/ \E r \in RegThreads : GetTensorCount(r)

SpecReg == InitReg /\ [][NextReg]_vars

\* ------------------------------------------------------------ encoding runs
InitEncode ==
    /\ AfterStart(Unset)
    /\ _rank = 0
    /\ RestQueues
    /\ RestRegistry
    /\ enc = [e \in EncThreads |-> IdleEnc]
    /\ krs \in KeyRangeLists
    /\ yielded = {}

NextEncode ==
    \/ \E e \in EncThreads : EncodeDefaultKey_lock(e)
    \/ \E e \in EncThreads : EncodeDefaultKey_lookup(e)
    \/ \E e \in EncThreads : EncodeDefaultKey_test(e)
    \/ \E e \in EncThreads : EncodeDefaultKey_checksize(e)
    \/ \E e \in EncThreads : EncodeDefaultKey_keys(e)
    \/ \E e \in EncThreads : EncodeDefaultKey_lens(e)
    \/ \E e \in EncThreads : EncodeDefaultKey_size(e)

SpecEncode == InitEncode /\ [][NextEncode]_vars

\* ------------------------------------------------------------ queue runs
\* Producers and stage workers on a started runtime, which the host may shut
\* down at any moment.
InitQueue ==
    /\ AfterStart(Unset)
    /\ _rank = 0
    /\ RestQueues
    /\ RestRegistry
    /\ RestEncode

NextQueue ==
    \/ \E p \in Producers : ProducerCall(p)
    \/ \E p \in Producers : ProducerLock(p)
    \/ \E p \in Producers : ProducerAdd(p)
    \/ \E i \in QueueTypes : WorkerLoop(i)
    \/ \E i \in QueueTypes : WorkerLock(i)
    \/ \E i \in QueueTypes : WorkerPendingSize(i)
    \/ \E i \in QueueTypes : WorkerDecide(i)
    \/ \E i \in QueueTypes : WorkerPeek(i)
    \/ \E i \in QueueTypes : WorkerGet(i)
    \/ \E i \in QueueTypes : WorkerReport(i)
    \/ \E c \in Callers : Shutdown_flag(c)
    \/ \E c \in Callers : Shutdown_join(c)
    \/ \E c \in Callers : Shutdown_finalize(c)
    \/ \E c \in Callers : Shutdown_streams(c)
    \/ \E c \in Callers : Shutdown_free(c)

SpecQueue == InitQueue /\ [][NextQueue]_vars

\* Registration and Shutdown: one thread registers tensors of 1,000,000
\* bytes, on the CPU or on a device, and looks up contexts while the workers
\* poll their queues, and the host calls Shutdown() at any moment.
Registrar == CHOOSE r \in RegThreads : (r - 1) \notin RegThreads

NextFree ==
    \/ IsTensorInitialized_lock(Registrar) /\ reg'[Registrar].size = 1000000 \div Unit
    \/ IsTensorInitialized_check(Registrar)
    \/ IsTensorInitialized_loop(Registrar)
    \/ GetContextFromName_lock(Registrar)
    \/ GetContextFromName(Registrar)
    \/ \E i \in QueueTypes : WorkerLoop(i)
    \/ \E i \in QueueTypes : WorkerLock(i)
    \/ \E i \in QueueTypes : WorkerPendingSize(i)
    \/ \E i \in QueueTypes : WorkerDecide(i)
    \/ \E c \in Callers : Shutdown_flag(c)
    \/ \E c \in Callers : Shutdown_join(c)
    \/ \E c \in Callers : Shutdown_finalize(c)
    \/ \E c \in Callers : Shutdown_streams(c)
    \/ \E c \in Callers : Shutdown_free(c)

SpecFree == InitQueue /\ [][NextFree]_vars

\* Fair scheduling: a thread that can take its next step is not held back for
\* ever.  That covers each worker, a producer inside addTask, and the host
\* inside Shutdown(); nobody is made to call addTask or Shutdown.
WorkerStep(i) ==
    \/ WorkerLoop(i) \/ WorkerLock(i) \/ WorkerPendingSize(i) \/ WorkerDecide(i)
    \/ WorkerPeek(i) \/ WorkerGet(i) \/ WorkerReport(i)

ShutdownStep(c) ==
    \/ Shutdown_join(c) \/ Shutdown_finalize(c) \/ Shutdown_streams(c) \/ Shutdown_free(c)

FairSpec ==
    /\ SpecQueue
    /\ \A i \in QueueTypes : WF_vars(WorkerStep(i))
    /\ \A p \in Producers : WF_vars(ProducerLock(p) \/ ProducerAdd(p))
    /\ \A c \in Callers : WF_vars(ShutdownStep(c))

\* ------------------------------------------------------------ lifecycle runs
\* The process as its static initializers leave it; nothing is queued, so
\* the workers only poll.
Init ==
    /\ env \in EnvValues
    /\ _init_mutex = NoThread
    /\ _initialized = FALSE
    /\ _should_shutdown = FALSE
    /\ _rank = 0 /\ _local_rank = 0 /\ _size = 1 /\ _local_size = 1
    /\ _partition_bound = DefaultPartitionBound
    /\ _comm = NULL
    /\ _ps = NULL
    /\ _reduce_stream = NULL
    /\ _broadcast_stream = NULL
    /\ _queues = [q \in QueueTypes |-> NULL]
    /\ _queues_mutex = [q \in QueueTypes |-> NoThread]
    /\ _threads = [i \in 0..(ThreadNum - 1) |-> NULL]
    /\ caller = [c \in Callers |-> [pc |-> "idle", i |-> 0]]
    /\ wk = [i \in 0..(ThreadNum - 1) |-> WorkerFrame("unborn")]
    /\ check_status = NoCheck
    /\ n_comm_init = 0 /\ n_ps_start = 0 /\ n_stream_create = 0
    /\ n_queue_create = [q \in QueueTypes |-> 0]
    /\ first_topology = NoTopology
    /\ RestQueues
    /\ RestRegistry
    /\ RestEncode

Next ==
    \/ \E c \in Callers : Init_lock(c)
    \/ \E c \in Callers : Init_check(c)
    \/ \E c \in Callers : Init_comm(c)
    \/ \E c \in Callers : Init_env(c)
    \/ \E c \in Callers : Init_ps(c)
    \/ \E c \in Callers : Init_streams(c)
    \/ \E c \in Callers : Init_queues(c)
    \/ \E c \in Callers : Init_flag(c)
    \/ \E c \in Callers : Init_return(c)
    \/ CheckInit_call
    \/ \E c \in Callers : Start(c)
    \/ \E c \in Callers : Shutdown_flag(c)
    \/ \E c \in Callers : Shutdown_join(c)
    \/ \E c \in Callers : Shutdown_finalize(c)
    \/ \E c \in Callers : Shutdown_streams(c)
    \/ \E c \in Callers : Shutdown_free(c)
    \/ \E i \in QueueTypes : WorkerLoop(i)
    \/ \E i \in QueueTypes : WorkerLock(i)
    \/ \E i \in QueueTypes : WorkerPendingSize(i)
    \/ \E i \in QueueTypes : WorkerDecide(i)

Spec == Init /\ [][Next]_vars

\* ============================================================ properties of the lifecycle
\* caller c has called Init() and the call has returned
InitReturned(c) ==
    caller[c].pc \notin {"idle", "Init:check", "Init:comm", "Init:env", "Init:ps",
                         "Init:streams", "Init:queues", "Init:flag", "Init:return"}

\* C1: however the Init() calls of the callers interleave, the communicator
\* init, the transport start, the stream creation and the creation of each
\* queue never run a second time; from the one communicator init on, rank,
\* size, local_rank and local_size stay what that init wrote, so no other
\* call changes them; and once a call has returned each of the four has run
\* exactly once and the runtime is initialized.
C1_InitRunsOnce ==
    /\ n_comm_init <= 1 /\ n_ps_start <= 1 /\ n_stream_create <= 1
    /\ \A q \in QueueTypes : n_queue_create[q] <= 1
    /\ n_comm_init = 1 => <<_rank, _size, _local_rank, _local_size>> = first_topology
    /\ \A c \in Callers : InitReturned(c) =>
          /\ _initialized
          /\ n_comm_init = 1 /\ n_ps_start = 1 /\ n_stream_create = 1
          /\ \A q \in QueueTypes : n_queue_create[q] = 1 /\ _queues[q] # NULL

\* C6: a CheckInit() call returns OK when the runtime is Running and the
\* PreconditionError status in every other lifecycle state: before Init,
\* while Init is at work, and once Shutdown has been called.
C6_CheckInitOnlyWhileRunning ==
    check_status # NoCheck =>
        /\ check_status.status = "OK" <=> check_status.state = "Running"
        /\ check_status.status = "PreconditionError" <=> check_status.state # "Running"

\* ============================================================ properties of the queues
\* C2: on each queue, what the getTask calls have returned so far, followed
\* by what is still queued, is exactly the added entries in the order their
\* addTask calls completed: no entry is skipped, none comes twice, none is
\* made up; and when addTask(a) had completed before addTask(b) started, a is
\* returned before b.
C2_QueueFIFO ==
    \A q \in QueueTypes :
        /\ returned[q] \o _sq[q] = completed[q]
        /\ \A j, k \in 1..Len(returned[q]) : j # k => returned[q][j] # returned[q][k]
        /\ \A k \in 1..Len(returned[q]) : \A a \in before[returned[q][k]] :
              \E j \in 1..(k - 1) : returned[q][j] = a

\* getTask has returned two entries of one queue, the second added by a call
\* that started after the first had completed, with a third entry added on
\* some queue by the other calls
C2_Witness ==
    \E q \in QueueTypes :
        /\ Len(returned[q]) >= 2
        /\ returned[q][1] \in before[returned[q][2]]
        /\ n_tasks = MaxTasks

\* C7: once the host has called Shutdown() on the started runtime, the call
\* returns and by then every stage worker has left its loop, whatever is
\* still queued.
C7_ShutdownReturns ==
    (caller[Host].pc = "Shutdown:join")
        ~> (caller[Host].pc = "stopped" /\ \A i \in QueueTypes : wk[i].pc = "exited")

\* Shutdown() has returned, every worker is gone, and a queue still holds an
\* entry nobody took
C7_Witness ==
    /\ caller[Host].pc = "stopped"
    /\ \A i \in QueueTypes : wk[i].pc = "exited" /\ _threads[i] = "deleted"
    /\ \E q \in QueueTypes : _sq[q] # <<>>

\* ============================================================ properties of the registry
RECURSIVE Sum(_)
Sum(s) == IF s = <<>> THEN 0 ELSE Head(s) + Sum(Tail(s))

KeyListOf(n) == IF n \in DOMAIN _name_to_cxt THEN _name_to_cxt[n].key_list ELSE <<>>

\* C3: every key appended to a key_list is distinct from every other issued
\* key, and a key issued later is greater than every key issued before it:
\* the keys in order of issue increase strictly, every key_list holds issued
\* keys in that order, no key lies in two key_lists, and next_key_ is above
\* all of them.
C3_KeysUniqueAndIncreasing ==
    /\ \A i, j \in 1..Len(issued) : i < j => issued[i] < issued[j]
    /\ \A k \in Range(issued) : k < next_key_
    /\ \A n \in Names :
          /\ Range(KeyListOf(n)) \subseteq Range(issued)
          /\ \A i, j \in 1..Len(KeyListOf(n)) : i < j => KeyListOf(n)[i] < KeyListOf(n)[j]
    /\ \A n, m \in Names : n # m => Range(KeyListOf(n)) \cap Range(KeyListOf(m)) = {}
    /\ Sum([i \in 1..Len(issued) |-> 1]) = Cardinality(UNION {Range(KeyListOf(n)) : n \in Names})

\* C3's case: two tensors are registered and hold several keys between them
C3_Witness ==
    /\ \A n \in Names : Len(KeyListOf(n)) >= 1 /\ iti_first[n] = "false"
    /\ Len(issued) >= 3

\* C4: a tensor of S > 0 bytes registered under a bound of B bytes gets
\* ceil(S/B) keys, whose chunks add up to S with none above B; under
\* B = 2,048,000 a tensor of 1,000,000 bytes gets 1 key and one of 3,000,000
\* bytes gets 2 keys, of 2,048,000 and 952,000 bytes.
C4_PartitionCoverage ==
    \A n \in Names :
        (iti_first[n] = "false" /\ reg_bound[n] > 0) =>
            /\ Len(KeyListOf(n)) = (reg_size[n] + reg_bound[n] - 1) \div reg_bound[n]
            /\ Sum(chunks[n]) = reg_size[n]
            /\ \A i \in 1..Len(chunks[n]) : chunks[n][i] <= reg_bound[n]
            /\ (reg_bound[n] = 2048000 \div Unit /\ reg_size[n] = 1000000 \div Unit)
                  => Len(KeyListOf(n)) = 1
            /\ (reg_bound[n] = 2048000 \div Unit /\ reg_size[n] = 3000000 \div Unit)
                  => chunks[n] = <<2048000 \div Unit, 952000 \div Unit>>

\* C5: the first IsTensorInitialized call for a name returns false and builds
\* the key_list, and every later call for the name returns true.
C5_FirstFalseThenTrue ==
    \A n \in Names :
        /\ iti_first[n] \in {"none", "false"}
        /\ iti_first[n] = "false" => KeyListOf(n) # <<>>
        /\ iti_later[n] \subseteq {"true"}

\* C8: IsTensorInitialized for a registered name, with the size it was
\* registered with, returns true and leaves the key_list, the buffer, the
\* key counter and the partition bound as they were.
C8_ReRegistrationChangesNothing ==
    [][\A r \in RegThreads :
          (/\ reg[r].pc = "ITI:check"
           /\ reg'[r].pc # "ITI:check"
           /\ reg_size[reg[r].name] # NoSize
           /\ reg[r].size = reg_size[reg[r].name])
          => /\ reg'[r].pc = "idle"
             /\ iti_later'[reg[r].name] = iti_later[reg[r].name] \cup {"true"}
             /\ _name_to_cxt' = _name_to_cxt
             /\ next_key_' = next_key_
             /\ _partition_bound' = _partition_bound
             /\ issued' = issued]_vars

\* C8's case: a second call with the registered size has returned
C8_Witness ==
    \E n \in Names :
        /\ reg_size[n] # NoSize
        /\ "true" \in iti_later[n]
        /\ n \notin resized_true

\* C9: IsTensorInitialized for a registered name with another size than the
\* one it was registered with never returns true (it is fatal).
C9_SizeMismatchIsFatal == resized_true = {}

\* ============================================================ properties of the encoding
\* C10: every EncodeDefaultKey call that returns gives the wire key of server
\* (key * 9973) mod num_servers, a server of the list: range_start + key,
\* inside that server's range; a call that computed the server computed that one.
C10_ServerAndWireKey ==
    \A y \in yielded :
        LET num_servers == Len(krs)
            server_id == ((y.key % num_servers) * (9973 % num_servers)) % num_servers
        IN  /\ num_servers > 0
            /\ y.server # NoServer => y.server = server_id
            /\ y.wire = krs[server_id + 1].begin + y.key
            /\ krs[server_id + 1].begin <= y.wire
            /\ y.wire < krs[server_id + 1].end

\* C11: all EncodeDefaultKey calls for one key that return were made with
\* the same len; a call with another len than the one recorded for the key
\* is fatal and does not return.
C11_OneLenPerKey ==
    \A y1, y2 \in yielded : y1.key = y2.key => y1.len = y2.len

\* C15: however the EncodeDefaultKey calls interleave, the entry of a key is
\* made once: it never holds more than one wire key or more than one length,
\* it holds exactly one of each once the calls for the key have returned, and
\* a wire key or size once written is not written again.
C15_EntryCreatedOnce ==
    /\ [](\A k \in DOMAIN ps_kv_ :
            /\ Len(ps_kv_[k].keys) <= 1
            /\ Len(ps_kv_[k].lens) <= 1
            /\ (\E y \in yielded : y.key = k) /\ (\A e \in EncThreads : enc[e].pc = "idle")
                  => Len(ps_kv_[k].keys) = 1 /\ Len(ps_kv_[k].lens) = 1)
    /\ [][\A k \in DOMAIN ps_kv_ :
            /\ ps_kv_[k].keys # <<>> => ps_kv_'[k].keys = ps_kv_[k].keys
            /\ ps_kv_[k].size # 0 => ps_kv_'[k].size = ps_kv_[k].size]_vars

\* C17: every step that writes the tensor registry or the key-assignment
\* table, or one of their entries, is taken by the thread that holds
\* _encode_mutex at that moment: the encoding thread that moves, or else a
\* registering thread.
C17_WritesUnderEncodeLock ==
    [][(ps_kv_' # ps_kv_ \/ _name_to_cxt' # _name_to_cxt) =>
          \/ \E e \in EncThreads : enc'[e] # enc[e] /\ _encode_mutex = EncT(e)
          \/ enc' = enc /\ \E r \in RegThreads : _encode_mutex = RegT(r)]_vars

\* C12: in every state in which CheckInit() returns OK every sub-step of
\* Init has been done and its result is there: the topology fields hold what
\* the communicator wrote, the transport is started, both streams exist, and
\* GetScheduledQueue returns a queue for every stage.
C12_InitializedMeansComplete ==
    CheckInit = "OK" =>
        /\ _comm # NULL
        /\ <<_rank, _size, _local_rank, _local_size>> = first_topology
        /\ _ps # NULL
        /\ _reduce_stream = "created" /\ _broadcast_stream = "created"
        /\ \A q \in QueueTypes : GetScheduledQueue(q) # NULL

\* C13: whenever a pendingSize() call on a queue returns, its result is K - J,
\* for K the addTask calls and J the getTask calls that have taken effect on
\* that queue, whatever peekTask and reportFinish calls were made.
C13_PendingSizeIsAddsMinusGets ==
    [][\A i \in QueueTypes :
          (wk[i].pc = "pendingSize:body" /\ wk'[i].pc = "decide")
             => wk'[i].seen = Len(completed[i]) - Len(returned[i])]_vars

\* pendingSize() has just returned 1 or more on a queue from which entries
\* were taken, peeked at and reported before
C13_Witness ==
    \E i \in QueueTypes :
        /\ wk[i].pc = "decide"
        /\ wk[i].seen >= 1
        /\ wk[i].seen = Len(completed[i]) - Len(returned[i])
        /\ Len(returned[i]) >= 1
        /\ _finished[i] >= 1

\* C19: with one consumer per queue that calls getTask or peekTask only
\* after its own pendingSize() call returned more than 0, neither ever runs
\* on an empty queue, whatever the producers do.
C19_NeverTakeFromEmpty ==
    \A q \in QueueTypes : on_empty[q] = 0 /\ ~sq_ub[q]

\* the consumer, having taken entries before, is inside getTask after a peek,
\* on a non-empty queue, while a producer waits to add to the same queue
C19_Witness ==
    \E q \in QueueTypes :
        /\ Len(returned[q]) >= 1
        /\ \E p \in Producers : prod[p].pc = "addTask:lock" /\ prod[p].q = q
        /\ wk[q].pc = "getTask:body" /\ wk[q].task # 0 /\ _sq[q] # <<>>


\* C14: after Init the partition bound, in elements, is the override's value
\* when the override is a positive integer, and the default 512000 when the
\* override is absent or is not a positive integer (text, zero, negative).
C14_BoundAfterInit ==
    _initialized =>
        _partition_bound =
            IF /\ env.set
               /\ env.text # <<>>
               /\ \A i \in DOMAIN env.text : IsDigit(env.text[i])
               /\ AtoiDigits(env.text, 0) > 0
            THEN AtoiDigits(env.text, 0) \div Unit
            ELSE DefaultPartitionBound

\* C16: the bound is converted from elements to bytes at most once, and once
\* the first IsTensorInitialized call of the process has passed its lookup
\* the bound is the configured element bound times the width of that call's
\* dtype, and stays so, whatever GetContextFromName calls are interleaved.
C16_ConvertedOnceAtFirstTensor ==
    /\ n_convert <= 1
    /\ first_dtype # "none" =>
          /\ n_convert = 1
          /\ _partition_bound =
                ConvertBoundToBytes(first_dtype, BoundFromEnv(env, DefaultPartitionBound))


\* C18: the release loop of Shutdown releases every staging buffer held by
\* a context exactly once, and makes no release for a context without a
\* staging buffer (a CPU tensor, or an entry that GetContextFromName
\* inserted).
C18_ReleasesExactlyStagingBuffers ==
    [][(caller[Host].pc = "Shutdown:free" /\ caller'[Host].pc = "stopped") =>
          LET released == SubSeq(freed', Len(freed) + 1, Len(freed')) IN
          /\ \A k \in DOMAIN released : released[k] # DefaultContext.cpubuff
          /\ \A n \in DOMAIN _name_to_cxt :
                _name_to_cxt[n].cpubuff # DefaultContext.cpubuff =>
                    Cardinality({k \in DOMAIN released :
                                    released[k] = _name_to_cxt[n].cpubuff}) = 1]_vars


\* C20: the partition loop of IsTensorInitialized terminates for every size
\* > 0 and every bound the override can produce.  The loop's condition
\* depends only on accumulated, size and the bound, and the bound is fixed
\* while the loop runs, so the loop terminates only if no turn leaves
\* accumulated where it was: every turn of the loop changes accumulated.
C20_PartitionLoopTerminates ==
    [][\A r \in RegThreads :
          (/\ reg[r].pc = "ITI:loop"
           /\ reg[r].size > 0
           /\ _encode_mutex = RegT(r)
           /\ next_key_' # next_key_)
             => reg'[r].accumulated # reg[r].accumulated]_vars

====
